---- MODULE Spec2Model ----
(***************************************************************************)
(* Model of the quad-lane parallel executor of the APEX arbitrage system   *)
(* (src/src/python/executor_raptor_4x4x4x4.py): HyperActiveSniper,         *)
(* LaneMetrics, ExecutionLane and QuadLaneExecutor, run by one asyncio     *)
(* event loop.  A step of the model is what one coroutine does between     *)
(* two points where it suspends.                                           *)
(*                                                                         *)
(* Units: profit_usd in whole USD, actual_profit / total_profit in cents,  *)
(* confidence_score in percent, latencies in milliseconds.                 *)
(***************************************************************************)
EXTENDS Integers, Sequences, FiniteSets, TLC

\* ---------------------------------------------------------------- bounds

\* Lanes of the engine instance that is explored (the source builds 4).
NumLanes == 2
\* Snipers and queues per lane of that instance (the source builds 4 and 4).
NumQueues == 2
\* Opportunities submitted to the engine in one behaviour.
MaxSubmit == 2
\* Effective Start calls (generations of worker tasks) in one behaviour.
MaxStarts == 2
\* Largest occupancy of a queue of the stand-alone lane.
MaxOcc == 3
\* Results recorded into the stand-alone LaneMetrics.
MaxRecords == 4
\* Opportunities added to the stand-alone lane.
MaxAdds == 2
\* add_pool calls on the stand-alone registry
MaxPools == 3
\* register_model calls that succeed on the stand-alone ModelManager
MaxRegs == 3

\* ------------------------------------------------------ program constants

\* queues of an ExecutionLane
LaneQueues == 4
\* defaults of MIN_PROFIT_USD, MIN_CONFIDENCE_SCORE (percent), MAX_GAS_ESTIMATE
DefaultMinProfit == 5
DefaultMinConfidence == 85
DefaultMaxGas == 1000000
\* artificial latencies of the three modes, in ms
LiveDelayMs == 150
DevDelayMs == 20
SimDelayMs == 1
\* realized share of the expected profit, in percent
SlippagePct == 95
FullPct == 100
\* LaneMetrics.execution_times is a deque(maxlen=100)
WindowLen == 100

Lanes == 0 .. (NumLanes - 1)
Queues == 0 .. (NumQueues - 1)
Gens == 1 .. MaxStarts
Modes == {"LIVE", "DEV", "SIM"}

VARIABLES
    executor,    \* QuadLaneExecutor: is_running, start_time, total_opportunities_received
    lanes,       \* lane id -> ExecutionLane
    tasks,       \* generation -> lane -> queue -> worker_loop task
    nstarts,     \* generations of worker tasks created so far
    pending,     \* the loops inside execute_opportunity, in the order they entered
    stopCall,    \* the QuadLaneExecutor.stop coroutine that is in progress
    lastCall,    \* the last call a client made on the engine, and what it saw
    mode,        \* execution_mode, fixed at construction
    env,         \* os.environ, as far as _validate_opportunity reads it
    lane,        \* a stand-alone ExecutionLane
    laneBefore,  \* that lane as it was before the last add_opportunity
    sniperOpp,   \* the opportunity handed to a stand-alone HyperActiveSniper
    sniperResult,\* what execute_opportunity returned for it
    lm,          \* a stand-alone LaneMetrics
    recorded,    \* the results recorded into lm, in order
    registry,    \* a PoolRegistry: pools, the three indexes, stats
    addedPools,  \* the pools passed to add_pool so far, in order
    versions,    \* ModelManager.versions: model type -> list of ModelVersion
    lastReg,     \* the last register_model call
    integrated,  \* the IntegratedExecutor in front of the engine
    created      \* the opportunities as their creators built them, by route id

engineVars == <<executor, lanes, tasks, nstarts, pending, stopCall, lastCall>>
mlVars == <<registry, addedPools, versions, lastReg, integrated, created>>
unitVars == <<lane, laneBefore, sniperOpp, sniperResult, lm, recorded,
              registry, addedPools, versions, lastReg, integrated, created>>
vars == <<executor, lanes, tasks, nstarts, pending, stopCall, lastCall, mode, env,
          lane, laneBefore, sniperOpp, sniperResult, lm, recorded,
          registry, addedPools, versions, lastReg, integrated, created>>

\* ------------------------------------------------------------- helpers

RECURSIVE SumFn(_, _)
SumFn(f, S) ==
    IF S = {} THEN 0
    ELSE LET x == CHOOSE y \in S : TRUE IN f[x] + SumFn(f, S \ {x})

MinOf(S) == CHOOSE x \in S : \A y \in S : x <= y

\* ------------------------------------------------------------ data types

\* Money is kept in fixed point. An expected profit (profit_usd) and the
\* MIN_PROFIT_USD floor are whole cents; a realized profit (actual_profit,
\* total_profit), being 0.95 or 1.0 times an expected one, is in hundredths
\* of a cent.
Cents(usd) == 100 * usd

\* a field of an Opportunity that holds None instead of a number (the
\* dataclass checks no type); no amount of the model is negative
None == 0 - 1

NoOpp == [route_id |-> 0]
NoResult == [status |-> "none"]

Opportunity(id, profit, conf, gas) ==
    [route_id |-> id, profit_usd |-> profit, confidence_score |-> conf,
     gas_estimate |-> gas]

DefaultEnv ==
    [MIN_PROFIT_USD |-> Cents(DefaultMinProfit),
     MIN_CONFIDENCE_SCORE |-> DefaultMinConfidence,
     MAX_GAS_ESTIMATE |-> DefaultMaxGas]

ExecutionResult(opp, status, lane_id, sniper_id, elapsed, tx, profit, gas, err) ==
    [opportunity |-> opp, status |-> status, lane_id |-> lane_id,
     sniper_id |-> sniper_id, execution_time_ms |-> elapsed, tx_hash |-> tx,
     actual_profit |-> profit, gas_used |-> gas, error_msg |-> err]

ResultSuccess(r) == r.status = "success"

\* ExecutionStatus: the values that end an attempt, and the others
TerminalStatuses == {"success", "failed", "timeout", "rejected"}
TransientStatuses == {"pending", "queued", "processing", "executing"}

\* an exception that leaves execute_opportunity instead of a result
Raised(msg) == [status |-> "raised", error_msg |-> msg]

\* ------------------------------------------------------- HyperActiveSniper

\* the profit check made with <= : an opportunity at the floor is rejected
ValidateOpportunityStrict(opp, e) ==
    IF opp.profit_usd <= e.MIN_PROFIT_USD THEN FALSE
    ELSE IF opp.confidence_score < e.MIN_CONFIDENCE_SCORE THEN FALSE
    ELSE IF opp.gas_estimate > e.MAX_GAS_ESTIMATE THEN FALSE
    ELSE TRUE

ValidateOpportunity(opp, e) ==
    IF opp.profit_usd < e.MIN_PROFIT_USD THEN FALSE
    ELSE IF opp.confidence_score < e.MIN_CONFIDENCE_SCORE THEN FALSE
    ELSE IF opp.gas_estimate > e.MAX_GAS_ESTIMATE THEN FALSE
    ELSE TRUE

\* the check at which _validate_opportunity returns False, the checks being
\* made in the order of the source
FirstFailedCheck(opp, e) ==
    IF opp.profit_usd < e.MIN_PROFIT_USD THEN "profit"
    ELSE IF opp.confidence_score < e.MIN_CONFIDENCE_SCORE THEN "confidence"
    ELSE IF opp.gas_estimate > e.MAX_GAS_ESTIMATE THEN "gas"
    ELSE "none"

\* what _validate_opportunity writes to the debug log before it returns
\* False (without the formatted number)
ValidateLogLine(opp, e) ==
    IF opp.profit_usd < e.MIN_PROFIT_USD THEN "Rejected: Profit too low"
    ELSE IF opp.confidence_score < e.MIN_CONFIDENCE_SCORE THEN "Rejected: Low confidence"
    ELSE IF opp.gas_estimate > e.MAX_GAS_ESTIMATE THEN "Rejected: Gas too high"
    ELSE ""

\* the check that a reason text of the sniper names
CheckNamedBy(msg) ==
    IF msg = "Rejected: Profit too low" THEN "profit"
    ELSE IF msg = "Rejected: Low confidence" THEN "confidence"
    ELSE IF msg = "Rejected: Gas too high" THEN "gas"
    ELSE "none"

\* the log line ahead of the try block formats profit_usd with :.2f and
\* confidence_score with :.2%, which a None does not support
LogLineRaises(opp) ==
    \/ opp.profit_usd = None
    \/ opp.confidence_score = None

\* inside the try block: the profit and confidence tests pass and the gas
\* comparison meets a None
ValidateRaises(opp, e) ==
    /\ opp.profit_usd >= e.MIN_PROFIT_USD
    /\ opp.confidence_score >= e.MIN_CONFIDENCE_SCORE
    /\ opp.gas_estimate = None

\* error_msg of a failed draw in DEV and in SIM mode
DevFailureReason == "Simulated failure (price moved)"
SimFailureReason == "Simulated slippage"

\* a LIVE execution that reports the expected profit as realized
ExecuteLiveNoSlippage(opp, lane_id, sniper_id) ==
    ExecutionResult(opp, "success", lane_id, sniper_id, LiveDelayMs, "0x0001",
                    opp.profit_usd * FullPct, opp.gas_estimate, "")

ExecuteLive(opp, lane_id, sniper_id) ==
    ExecutionResult(opp, "success", lane_id, sniper_id, LiveDelayMs, "0x0001",
                    opp.profit_usd * SlippagePct, opp.gas_estimate, "")

\* a DEV execution that reports an unlucky draw as a timeout
ExecuteDevTimeout(opp, lane_id, sniper_id, draw) ==
    IF draw
    THEN ExecutionResult(opp, "success", lane_id, sniper_id, DevDelayMs, "",
                         opp.profit_usd * SlippagePct, opp.gas_estimate, "")
    ELSE ExecutionResult(opp, "timeout", lane_id, sniper_id, DevDelayMs, "",
                         0, 0, "Simulated failure (price moved)")

ExecuteDev(opp, lane_id, sniper_id, draw) ==
    IF draw
    THEN ExecutionResult(opp, "success", lane_id, sniper_id, DevDelayMs, "",
                         opp.profit_usd * SlippagePct, opp.gas_estimate, "")
    ELSE ExecutionResult(opp, "failed", lane_id, sniper_id, DevDelayMs, "",
                         0, 0, DevFailureReason)

\* a SIM execution that applies the slippage of the other modes
ExecuteSimSlipped(opp, lane_id, sniper_id, draw) ==
    IF draw
    THEN ExecutionResult(opp, "success", lane_id, sniper_id, SimDelayMs, "",
                         opp.profit_usd * SlippagePct, opp.gas_estimate, "")
    ELSE ExecutionResult(opp, "failed", lane_id, sniper_id, SimDelayMs, "",
                         0, 0, SimFailureReason)

ExecuteSim(opp, lane_id, sniper_id, draw) ==
    IF draw
    THEN ExecutionResult(opp, "success", lane_id, sniper_id, SimDelayMs, "",
                         opp.profit_usd * FullPct, opp.gas_estimate, "")
    ELSE ExecutionResult(opp, "failed", lane_id, sniper_id, SimDelayMs, "",
                         0, 0, SimFailureReason)

\* whether execute_opportunity reaches the asyncio.sleep of its mode
Sleeps(opp, e) ==
    /\ ~LogLineRaises(opp)
    /\ ~ValidateRaises(opp, e)
    /\ ValidateOpportunity(opp, e)

\* draw: whether np.random.random() fell below the mode's success probability
ExecuteOpportunity(opp, m, e, lane_id, sniper_id, draw) ==
    IF LogLineRaises(opp)
    THEN Raised("unsupported format string passed to NoneType.__format__")
    ELSE IF ValidateRaises(opp, e)
    THEN ExecutionResult(opp, "failed", lane_id, sniper_id, 0, "", 0, 0,
                         "'>' not supported between instances of 'NoneType' and 'int'")
    ELSE IF ~ValidateOpportunity(opp, e)
    THEN ExecutionResult(opp, "rejected", lane_id, sniper_id, 0, "", 0, 0,
                         "Opportunity failed validation")
    ELSE IF m = "LIVE" THEN ExecuteLive(opp, lane_id, sniper_id)
    ELSE IF m = "DEV" THEN ExecuteDev(opp, lane_id, sniper_id, draw)
    ELSE ExecuteSim(opp, lane_id, sniper_id, draw)

\* ------------------------------------------------------------- LaneMetrics

NewLaneMetrics ==
    [total_opportunities |-> 0, total_executions |-> 0,
     successful_executions |-> 0, failed_executions |-> 0,
     total_profit |-> 0, total_gas_used |-> 0, execution_times |-> <<>>]

\* a deque without maxlen
DequeAppendUnbounded(d, x) == Append(d, x)

\* deque(maxlen=WindowLen).append
DequeAppend(d, x) ==
    IF Len(d) < WindowLen THEN Append(d, x) ELSE Append(Tail(d), x)

\* a rejected result counted neither as a success nor as a failure
RecordExecutionFailedOnly(m, r) ==
    [m EXCEPT
        !.total_executions = @ + 1,
        !.successful_executions = IF ResultSuccess(r) THEN @ + 1 ELSE @,
        !.total_profit = IF ResultSuccess(r) THEN @ + r.actual_profit ELSE @,
        !.failed_executions = IF r.status = "failed" THEN @ + 1 ELSE @,
        !.total_gas_used = @ + r.gas_used,
        !.execution_times = DequeAppend(@, r.execution_time_ms)]

RecordExecution(m, r) ==
    [m EXCEPT
        !.total_executions = @ + 1,
        !.successful_executions = IF ResultSuccess(r) THEN @ + 1 ELSE @,
        !.total_profit = IF ResultSuccess(r) THEN @ + r.actual_profit ELSE @,
        !.failed_executions = IF ResultSuccess(r) THEN @ ELSE @ + 1,
        !.total_gas_used = @ + r.gas_used,
        !.execution_times = DequeAppend(@, r.execution_time_ms)]

\* success_rate, as the fraction num / den
SuccessRate(m) ==
    IF m.total_executions = 0 THEN [num |-> 0, den |-> 1]
    ELSE [num |-> m.successful_executions, den |-> m.total_executions]

\* f"${x:.2f}": an amount in hundredths of a cent written with two decimals;
\* the text is kept as the number of cents it shows. (An amount that lies
\* exactly between two cents is rounded up here; no amount of the model does.)
FormatUsd(x) == (x + 50) \div 100

\* float(text.replace('$', '')): the amount a two-decimal text stands for
ParseUsd(text) == 100 * text

\* f"{rate * 100:.2f}%" for rate = num / den, kept as hundredths of a percent
FormatPct(num, den) == (2 * 10000 * num + den) \div (2 * den)

\* to_dict(), as far as get_overall_metrics reads it
LaneToDict(m) ==
    [total_opportunities |-> m.total_opportunities,
     total_executions |-> m.total_executions,
     successful_executions |-> m.successful_executions,
     failed_executions |-> m.failed_executions,
     success_rate |-> FormatPct(SuccessRate(m).num, SuccessRate(m).den),
     total_profit |-> FormatUsd(m.total_profit),
     total_gas_used |-> m.total_gas_used]

\* ----------------------------------------------------------- ExecutionLane

NewLane(nq) ==
    [is_running |-> FALSE,
     queues |-> [q \in 0 .. (nq - 1) |-> <<>>],
     unfinished |-> [q \in 0 .. (nq - 1) |-> 0],
     active |-> [q \in 0 .. (nq - 1) |-> FALSE],
     executions_count |-> [q \in 0 .. (nq - 1) |-> 0],
     metrics |-> NewLaneMetrics]

QueueSizes(ln) == [q \in DOMAIN ln.queues |-> Len(ln.queues[q])]

\* the last queue of least size instead of the first
MinQueueIdxLast(sizes) ==
    LET least == MinOf({sizes[q] : q \in DOMAIN sizes})
    IN CHOOSE q \in DOMAIN sizes :
          /\ sizes[q] = least
          /\ \A p \in DOMAIN sizes : sizes[p] = least => p <= q

\* queue_sizes.index(min(queue_sizes))
MinQueueIdx(sizes) ==
    LET least == MinOf({sizes[q] : q \in DOMAIN sizes})
    IN MinOf({q \in DOMAIN sizes : sizes[q] = least})

LaneAddOpportunity(ln, opp) ==
    LET idx == MinQueueIdx(QueueSizes(ln))
    IN [ln EXCEPT
           !.metrics.total_opportunities = @ + 1,
           !.queues[idx] = Append(@, opp),
           !.unfinished[idx] = @ + 1]

\* ------------------------------------------------------- worker_loop tasks

\* st: "none" (not created), "created" (scheduled, not yet run), "waiting"
\* (suspended in wait_for(queue.get())), "busy" (dequeued opp, suspended in
\* execute_opportunity), "exited" (left the while loop), "cancelled"
NoTask == [st |-> "none", opp |-> NoOpp]
Task(st, opp) == [st |-> st, opp |-> opp]

TaskLive(t) == t.st \in {"created", "waiting", "busy"}
TaskLooping(t) == t.st \in {"waiting", "busy"}

\* the first run of a created task: is_active = True, then the while test
BeginLoop(ln, q) ==
    IF ln.is_running THEN [ln EXCEPT !.active[q] = TRUE]
    ELSE [ln EXCEPT !.active[q] = FALSE]

\* a loop that marks a rejected opportunity done without recording it
LoopRecordSkipsRejected(ln, q, r) ==
    [ln EXCEPT
        !.metrics = IF r.status = "rejected" THEN @ ELSE RecordExecution(@, r),
        !.unfinished[q] = @ - 1,
        !.active[q] = IF ln.is_running THEN @ ELSE FALSE]

\* what the loop does once execute_opportunity has returned r
\* a loop that puts an opportunity back on its queue when the result is not
\* a success
LoopRecordRetries(ln, q, r) ==
    [ln EXCEPT
        !.metrics = RecordExecution(@, r),
        !.queues[q] = IF ResultSuccess(r) THEN @ ELSE Append(@, r.opportunity),
        !.unfinished[q] = IF ResultSuccess(r) THEN @ - 1 ELSE @,
        !.active[q] = IF ln.is_running THEN @ ELSE FALSE]

\* (an exception out of execute_opportunity is logged by the loop's own
\* handler, which skips record_execution and task_done)
LoopRecord(ln, q, r) ==
    IF r.status = "raised"
    THEN [ln EXCEPT !.active[q] = IF ln.is_running THEN @ ELSE FALSE]
    ELSE [ln EXCEPT
            !.metrics = RecordExecution(@, r),
            !.unfinished[q] = @ - 1,
            !.active[q] = IF ln.is_running THEN @ ELSE FALSE]

\* ------------------------------------------------------- QuadLaneExecutor

NewExecutor ==
    [is_running |-> FALSE, start_time |-> 0, total_opportunities_received |-> 0]

Call(op, ignored) == [op |-> op, ignored |-> ignored]

IdleStop == [st |-> "idle", lane |-> 0, queue |-> 0, woken |-> FALSE, n |-> 0]

\* the lane taken from the counter as it was before the increment
LaneIndexBeforeIncrement(received) == (received - 1) % NumLanes

\* lane_idx = self.total_opportunities_received % 4, after the increment
LaneIndex(received) == received % NumLanes

\* start() without its "already running" test
StartSkipsNever(ex) == FALSE

\* if self.is_running: return
StartSkips(ex) == ex.is_running

\* stop() without its "not running" test
StopSkipsNever(ex) == FALSE

\* if not self.is_running: return
StopSkips(ex) == ~ex.is_running

\* one entry of health_check()['lanes']
LaneHealth(ln) ==
    LET active_snipers == Cardinality({q \in DOMAIN ln.active : ln.active[q]})
    IN [is_running |-> ln.is_running,
        active_snipers |-> active_snipers,
        queue_sizes |-> QueueSizes(ln),
        healthy |-> ln.is_running /\ active_snipers > 0]

HealthCheck(ls) ==
    [healthy |-> \A l \in DOMAIN ls : LaneHealth(ls[l]).healthy,
     lanes |-> [l \in DOMAIN ls |-> LaneHealth(ls[l])]]

GetOverallMetrics(ex, ls, m) ==
    LET all_metrics == [l \in DOMAIN ls |-> LaneToDict(ls[l].metrics)]
        total_executions ==
            SumFn([l \in DOMAIN ls |-> all_metrics[l].total_executions], DOMAIN ls)
        total_successes ==
            SumFn([l \in DOMAIN ls |-> all_metrics[l].successful_executions], DOMAIN ls)
        total_profit ==
            SumFn([l \in DOMAIN ls |-> ParseUsd(all_metrics[l].total_profit)], DOMAIN ls)
    IN [execution_mode |-> m,
        total_opportunities_received |-> ex.total_opportunities_received,
        total_executions |-> total_executions,
        total_successes |-> total_successes,
        overall_success_rate |->
            IF total_executions > 0 THEN FormatPct(total_successes, total_executions)
            ELSE 0,
        total_profit |-> FormatUsd(total_profit),
        lanes |-> all_metrics]

\* lane.stop() from the join of queue q on, and the lanes after it: the
\* coroutine suspends at the first queue with unfinished tasks
RECURSIVE StopRun(_, _, _)
StopRun(ls, l, q) ==
    IF q = NumQueues
    THEN IF l = NumLanes - 1
         THEN [lanes |-> ls, st |-> "returned", lane |-> l, queue |-> 0]
         ELSE StopRun([ls EXCEPT ![l + 1].is_running = FALSE], l + 1, 0)
    ELSE IF ls[l].unfinished[q] > 0
         THEN [lanes |-> ls, st |-> "joining", lane |-> l, queue |-> q]
         ELSE StopRun(ls, l, q + 1)

\* ------------------------------------------------------ IntegratedExecutor

\* MIN_ML_SCORE, in percent
DefaultMinMlScore == 85

\* what ml_ensemble.predict did in the last call
NoScore == [raised |-> FALSE, score |-> None]
Score(raised, score) == [raised |-> raised, score |-> score]

\* ml_ensemble: whether an MLEnsemble is there; returned: what the last
\* process_opportunity returned ("True", "False"); last_opp: the attributes that the object
\* passed to it has now
NewIntegrated(ml_ensemble, use_ml_filtering) ==
    [ml_ensemble |-> ml_ensemble, use_ml_filtering |-> use_ml_filtering,
     min_ml_score |-> DefaultMinMlScore,
     opportunities_received |-> 0, opportunities_filtered |-> 0,
     opportunities_submitted |-> 0,
     returned |-> "none", scorer |-> NoScore, last_opp |-> NoOpp]

\* if self.use_ml_filtering and self.ml_ensemble
UsesMl(ie) == ie.use_ml_filtering /\ ie.ml_ensemble

\* a filter that also drops the opportunity when the scorer raises
FilteredOrRaised(ie, sc) ==
    UsesMl(ie) /\ (sc.raised \/ sc.score < ie.min_ml_score)

\* if ml_score < self.min_ml_score: ... return False
Filtered(ie, sc) == UsesMl(ie) /\ ~sc.raised /\ sc.score < ie.min_ml_score

\* the Opportunity object after the ML block of process_opportunity:
\* opportunity.confidence_score = ml_score
AfterScoring(ie, opp, sc) ==
    IF UsesMl(ie) /\ ~sc.raised /\ ~Filtered(ie, sc)
    THEN [opp EXCEPT !.confidence_score = sc.score]
    ELSE opp

\* an ML block that leaves the object as the caller built it
AfterScoringUntouched(ie, opp, sc) == opp

\* ------------------------------------------------------------ PoolRegistry

PoolInfo(address, dex, chain, token0_address, token1_address, pool_type, is_active) ==
    [address |-> address, dex |-> dex, chain |-> chain,
     token0_address |-> token0_address, token1_address |-> token1_address,
     pool_type |-> pool_type, is_active |-> is_active]

NewRegistry ==
    [pools |-> [k \in {} |-> 0],
     pools_by_token_pair |-> [k \in {} |-> {}],
     pools_by_chain |-> [k \in {} |-> {}],
     pools_by_dex |-> [k \in {} |-> {}],
     stats |-> [total_pools |-> 0, active_pools |-> 0,
                pools_by_type |-> [k \in {} |-> 0]]]

\* f"{pool.chain}:{pool.dex}:{pool.address}"
PoolKey(chain, dex, address) == chain \o ":" \o dex \o ":" \o address

\* str.lower() on the token addresses of the model
Lower(t) ==
    CASE t = "0xUSDC" -> "0xusdc"
      [] t = "0xUSDT" -> "0xusdt"
      [] t = "0xDAI" -> "0xdai"
      [] OTHER -> t

\* the place of a lower-cased token address in sorted()
SortRank(t) ==
    CASE t = "0xdai" -> 1
      [] t = "0xusdc" -> 2
      [] t = "0xusdt" -> 3
      [] OTHER -> 4

TokenPairKey(token0, token1) ==
    LET a == Lower(token0)
        b == Lower(token1)
    IN IF SortRank(a) <= SortRank(b) THEN a \o ":" \o b ELSE b \o ":" \o a

\* index.setdefault(key, set()).add(pool_key)
IndexAdd(index, key, pool_key) ==
    IF key \in DOMAIN index
    THEN [index EXCEPT ![key] = @ \cup {pool_key}]
    ELSE (key :> {pool_key}) @@ index

\* pools_by_type[t] += 1, created at 0 when missing
TypeIncrement(by_type, t) ==
    IF t \in DOMAIN by_type
    THEN [by_type EXCEPT ![t] = @ + 1]
    ELSE (t :> 1) @@ by_type

\* pools_by_type[t] -= 1 when present, the entry deleted at 0
TypeDecrement(by_type, t) ==
    IF t \notin DOMAIN by_type THEN by_type
    ELSE IF by_type[t] - 1 <= 0
         THEN [x \in DOMAIN by_type \ {t} |-> by_type[x]]
         ELSE [by_type EXCEPT ![t] = @ - 1]

\* add_pool with total_pools counted up on every call
AddPoolCounting(reg, pool) ==
    LET pool_key == PoolKey(pool.chain, pool.dex, pool.address)
    IN [reg EXCEPT
           !.pools = (pool_key :> pool) @@ @,
           !.stats.total_pools = @ + 1]

AddPool(reg, pool) ==
    LET pool_key == PoolKey(pool.chain, pool.dex, pool.address)
        is_new_pool == pool_key \notin DOMAIN reg.pools
        existing_pool == reg.pools[pool_key]
        pools == (pool_key :> pool) @@ reg.pools
        pair_key == TokenPairKey(pool.token0_address, pool.token1_address)
        active_pools ==
            IF is_new_pool
            THEN IF pool.is_active THEN reg.stats.active_pools + 1
                 ELSE reg.stats.active_pools
            ELSE IF existing_pool.is_active # pool.is_active
                 THEN IF pool.is_active THEN reg.stats.active_pools + 1
                      ELSE reg.stats.active_pools - 1
                 ELSE reg.stats.active_pools
        pools_by_type ==
            IF is_new_pool
            THEN TypeIncrement(reg.stats.pools_by_type, pool.pool_type)
            ELSE IF existing_pool.pool_type # pool.pool_type
                 THEN TypeIncrement(
                          TypeDecrement(reg.stats.pools_by_type, existing_pool.pool_type),
                          pool.pool_type)
                 ELSE reg.stats.pools_by_type
    IN [pools |-> pools,
        pools_by_token_pair |-> IndexAdd(reg.pools_by_token_pair, pair_key, pool_key),
        pools_by_chain |-> IndexAdd(reg.pools_by_chain, pool.chain, pool_key),
        pools_by_dex |-> IndexAdd(reg.pools_by_dex, pool.dex, pool_key),
        stats |-> [total_pools |-> Cardinality(DOMAIN pools),
                   active_pools |-> active_pools,
                   pools_by_type |-> pools_by_type]]

\* set_pool_status: the stored PoolInfo and the active count, for a key
\* the registry holds; nothing otherwise
SetPoolStatus(reg, chain, dex, address, is_active) ==
    LET pool_key == PoolKey(chain, dex, address)
    IN IF pool_key \notin DOMAIN reg.pools THEN reg
       ELSE LET old_status == reg.pools[pool_key].is_active
            IN [reg EXCEPT
                  !.pools[pool_key].is_active = is_active,
                  !.stats.active_pools =
                      IF old_status # is_active
                      THEN IF is_active THEN @ + 1 ELSE @ - 1
                      ELSE @]

\* find_pools_for_token_pair without the optional filters, as a set (the
\* order, by TVL, is not modelled)
FindPoolsForTokenPair(reg, token0, token1) ==
    LET pair_key == TokenPairKey(token0, token1)
        pool_keys == IF pair_key \in DOMAIN reg.pools_by_token_pair
                     THEN reg.pools_by_token_pair[pair_key] ELSE {}
    IN {reg.pools[key] : key \in pool_keys \cap DOMAIN reg.pools}

\* ------------------------------------------------------------ ModelManager

NewVersions == [t \in {"xgboost", "onnx"} |-> <<>>]

NoReg == [op |-> "none"]

\* traffic_weight is kept in percent
ModelVersion(version, model_type, path, is_active, traffic_weight) ==
    [version |-> version, model_type |-> model_type, path |-> path,
     is_active |-> is_active, traffic_weight |-> traffic_weight]

ModelTypes == {"xgboost", "onnx"}

\* raise ValueError(f"Invalid model_type: {model_type}")
RegisterRaises(model_type) == model_type \notin ModelTypes

\* self.versions after register_model returned
RegisterModel(vs, model_type, model_path, version, activate) ==
    LET model_version ==
            ModelVersion(version, model_type, model_path, activate,
                         IF activate THEN 100 ELSE 0)
        appended == Append(vs[model_type], model_version)
    IN [vs EXCEPT ![model_type] =
           IF activate
           THEN [i \in DOMAIN appended |->
                    IF appended[i].version # version
                    THEN [appended[i] EXCEPT !.is_active = FALSE,
                                             !.traffic_weight = 0]
                    ELSE appended[i]]
           ELSE appended]

\* ------------------------------------------------------------------- Init

InitEngine ==
    /\ executor = NewExecutor
    /\ lanes = [l \in Lanes |-> NewLane(NumQueues)]
    /\ tasks = [g \in Gens |-> [l \in Lanes |-> [q \in Queues |-> NoTask]]]
    /\ nstarts = 0
    /\ pending = <<>>
    /\ stopCall = IdleStop
    /\ lastCall = Call("none", FALSE)

\* a fresh PoolRegistry and a ModelManager with no versions file
InitModels ==
    /\ registry = NewRegistry
    /\ addedPools = <<>>
    /\ versions = NewVersions
    /\ lastReg = NoReg

\* those, and an IntegratedExecutor built without the ML modules
InitMl ==
    /\ InitModels
    /\ integrated = NewIntegrated(FALSE, TRUE)
    /\ created = <<>>

InitUnits ==
    /\ lane = NewLane(LaneQueues)
    /\ laneBefore = NewLane(LaneQueues)
    /\ sniperOpp = NoOpp
    /\ sniperResult = NoResult
    /\ lm = NewLaneMetrics
    /\ recorded = <<>>
    /\ InitMl

\* the engine as QuadLaneExecutor() builds it under the default environment
\* (MODE unset: DEV)
Init ==
    /\ InitEngine
    /\ InitUnits
    /\ mode = "DEV"
    /\ env = DefaultEnv

\* ---------------------------------------------------------------- actions

\* the opportunities the clients submit: (profit_usd, confidence, gas), one
\* of $10.11 and one of $3.00
OppInputs == {<<1011, 90, 300000>>, <<300, 90, 300000>>}

Start ==
    /\ IF StartSkips(executor)
       THEN /\ lastCall' = Call("start", TRUE)
            /\ UNCHANGED <<executor, lanes, tasks, nstarts>>
       ELSE /\ nstarts < MaxStarts
            /\ executor' = [executor EXCEPT !.is_running = TRUE,
                                            !.start_time = nstarts + 1]
            /\ lanes' = [l \in Lanes |-> [lanes[l] EXCEPT !.is_running = TRUE]]
            /\ tasks' = [tasks EXCEPT ![nstarts + 1] =
                            [l \in Lanes |-> [q \in Queues |-> Task("created", NoOpp)]]]
            /\ nstarts' = nstarts + 1
            /\ lastCall' = Call("start", FALSE)
    /\ UNCHANGED <<pending, stopCall, mode, env, unitVars>>

\* submit_opportunity for an opportunity drawn from inputs, by clients that
\* submit limit opportunities in all
SubmitOpportunity(inputs, limit) ==
    /\ executor.total_opportunities_received < limit
    /\ \E i \in inputs :
         LET received == executor.total_opportunities_received + 1
             idx == LaneIndex(received)
             opp == Opportunity(received, i[1], i[2], i[3])
         IN /\ executor' = [executor EXCEPT !.total_opportunities_received = received]
            /\ lanes' = [lanes EXCEPT ![idx] = LaneAddOpportunity(@, opp)]
            /\ lastCall' = Call("submit", FALSE)
    /\ UNCHANGED <<tasks, nstarts, pending, stopCall, mode, env, unitVars>>

Submit == SubmitOpportunity(OppInputs, MaxSubmit)

\* every task a Start created runs for the first time in the same pass of
\* the event loop
BeginTasks ==
    /\ \E g \in Gens :
         /\ \E l \in Lanes, q \in Queues : tasks[g][l][q].st = "created"
         /\ tasks' = [tasks EXCEPT ![g] =
               [l \in Lanes |-> [q \in Queues |->
                   IF tasks[g][l][q].st = "created"
                   THEN Task(IF lanes[l].is_running THEN "waiting" ELSE "exited", NoOpp)
                   ELSE tasks[g][l][q]]]]
         /\ lanes' = [l \in Lanes |->
               [lanes[l] EXCEPT !.active = [q \in Queues |->
                   IF tasks[g][l][q].st = "created"
                   THEN BeginLoop(lanes[l], q).active[q]
                   ELSE lanes[l].active[q]]]]
    /\ UNCHANGED <<executor, nstarts, pending, stopCall, lastCall, mode, env, unitVars>>

\* queue.get() returns the head of the queue to a waiting loop, which
\* enters execute_opportunity
LoopDequeue ==
    /\ \E g \in Gens, l \in Lanes, q \in Queues :
         /\ tasks[g][l][q].st = "waiting"
         /\ Len(lanes[l].queues[q]) > 0
         /\ tasks' = [tasks EXCEPT ![g][l][q] = Task("busy", Head(lanes[l].queues[q]))]
         /\ lanes' = [lanes EXCEPT ![l].queues[q] = Tail(@),
                                   ![l].executions_count[q] = @ + 1]
         /\ pending' = Append(pending, <<g, l, q>>)
    /\ UNCHANGED <<executor, nstarts, stopCall, lastCall, mode, env, unitVars>>

\* the k-th pending call of execute_opportunity sleeps in its mode's
\* asyncio.sleep
Sleeping(k) ==
    Sleeps(tasks[pending[k][1]][pending[k][2]][pending[k][3]].opp, env)

\* The event loop runs its callbacks in the order they became ready. The
\* sleeps of one mode are equally long, so a call that sleeps returns after
\* every call entered before it; a call that does not sleep returns on the
\* next run of its task, ahead of the calls entered later and of the earlier
\* ones that do not sleep either.
MayReturn(k) ==
    IF Sleeping(k) THEN k = 1
    ELSE \A j \in 1 .. (k - 1) : Sleeping(j)

\* the sequence without its k-th element
RemoveAt(seq, k) ==
    SubSeq(seq, 1, k - 1) \o SubSeq(seq, k + 1, Len(seq))

\* execute_opportunity returns; the loop records the result, marks the
\* task done and tests self.is_running
LoopFinish ==
    /\ \E g \in Gens, l \in Lanes, q \in Queues, draw \in BOOLEAN :
         LET r == ExecuteOpportunity(tasks[g][l][q].opp, mode, env, l, q, draw)
             ln == LoopRecord(lanes[l], q, r)
             k == CHOOSE j \in 1 .. Len(pending) : pending[j] = <<g, l, q>>
         IN /\ tasks[g][l][q].st = "busy"
            /\ MayReturn(k)
            /\ pending' = RemoveAt(pending, k)
            /\ lanes' = [lanes EXCEPT ![l] = ln]
            /\ tasks' = [tasks EXCEPT ![g][l][q] =
                  Task(IF lanes[l].is_running THEN "waiting" ELSE "exited", NoOpp)]
            /\ stopCall' =
                  IF /\ stopCall.st = "joining"
                     /\ stopCall.lane = l
                     /\ stopCall.queue = q
                     /\ ln.unfinished[q] = 0
                  THEN [stopCall EXCEPT !.woken = TRUE]
                  ELSE stopCall
    /\ UNCHANGED <<executor, nstarts, lastCall, mode, env, unitVars>>

\* wait_for times out on an empty queue and the while test fails
LoopTimeout ==
    /\ \E g \in Gens, l \in Lanes, q \in Queues :
         /\ tasks[g][l][q].st = "waiting"
         /\ Len(lanes[l].queues[q]) = 0
         /\ ~lanes[l].is_running
         /\ tasks' = [tasks EXCEPT ![g][l][q] = Task("exited", NoOpp)]
         /\ lanes' = [lanes EXCEPT ![l].active[q] = FALSE]
    /\ UNCHANGED <<executor, nstarts, pending, stopCall, lastCall, mode, env, unitVars>>

Stop ==
    /\ IF StopSkips(executor)
       THEN /\ lastCall' = Call("stop", TRUE)
            /\ UNCHANGED <<executor, lanes, stopCall>>
       ELSE /\ stopCall.st # "joining"
            /\ LET run == StopRun([lanes EXCEPT ![0].is_running = FALSE], 0, 0)
               IN /\ lanes' = run.lanes
                  /\ stopCall' = [st |-> run.st, lane |-> run.lane, queue |-> run.queue,
                                  woken |-> FALSE,
                                  n |-> executor.total_opportunities_received]
            /\ executor' = [executor EXCEPT !.is_running = FALSE]
            /\ lastCall' = Call("stop", FALSE)
    /\ UNCHANGED <<tasks, nstarts, pending, mode, env, unitVars>>

\* the join the Stop coroutine waits in has been released
StopResume ==
    /\ stopCall.st = "joining"
    /\ stopCall.woken
    /\ LET run == StopRun(lanes, stopCall.lane, stopCall.queue + 1)
       IN /\ lanes' = run.lanes
          /\ stopCall' = [stopCall EXCEPT !.st = run.st, !.lane = run.lane,
                                          !.queue = run.queue, !.woken = FALSE]
    /\ UNCHANGED <<executor, tasks, nstarts, pending, lastCall, mode, env, unitVars>>

\* the caller of start() cancels the tasks it was given (demo_executor)
CancelTasks ==
    /\ \E g \in Gens :
         /\ \E l \in Lanes, q \in Queues : TaskLive(tasks[g][l][q])
         /\ tasks' = [tasks EXCEPT ![g] =
               [l \in Lanes |-> [q \in Queues |->
                   IF TaskLive(tasks[g][l][q]) THEN Task("cancelled", NoOpp)
                   ELSE tasks[g][l][q]]]]
         /\ pending' = SelectSeq(pending, LAMBDA t : t[1] # g)
         /\ lastCall' = Call("cancel", FALSE)
    /\ UNCHANGED <<executor, lanes, nstarts, stopCall, mode, env, unitVars>>

Next ==
    \/ Start
    \/ Submit
    \/ BeginTasks
    \/ LoopDequeue
    \/ LoopFinish
    \/ LoopTimeout
    \/ Stop
    \/ StopResume
    \/ CancelTasks

Spec == Init /\ [][Next]_vars

\* ------------------------------------------------- graceful-drain scenario

\* The engine with clients that submit nothing while a Stop is waiting and
\* cancel no task: every execute_opportunity call returns.
SubmitBeforeStop ==
    /\ stopCall.st # "joining"
    /\ Submit

NextDrain ==
    \/ Start
    \/ SubmitBeforeStop
    \/ BeginTasks
    \/ LoopDequeue
    \/ LoopFinish
    \/ LoopTimeout
    \/ Stop
    \/ StopResume

\* what the event loop does on its own: ready tasks run, sleeps and
\* timeouts end
EngineStep ==
    \/ BeginTasks
    \/ LoopDequeue
    \/ LoopFinish
    \/ LoopTimeout
    \/ StopResume

SpecDrain == Init /\ [][NextDrain]_vars /\ WF_vars(EngineStep)

\* ----------------------------------------------------- shutdown scenario

\* The engine run the way demo_executor and run_integrated_demo run it: one
\* start(), submissions, stop(), and once stop() has returned the caller
\* cancels the tasks start() gave it.
StartOnce ==
    /\ nstarts = 0
    /\ Start

CancelAfterStop ==
    /\ stopCall.st = "returned"
    /\ CancelTasks

NextShutdown ==
    \/ StartOnce
    \/ SubmitBeforeStop
    \/ BeginTasks
    \/ LoopDequeue
    \/ LoopFinish
    \/ LoopTimeout
    \/ Stop
    \/ StopResume
    \/ CancelAfterStop

SpecShutdown == Init /\ [][NextShutdown]_vars /\ WF_vars(EngineStep)

\* ------------------------------------------------------ restart scenario

\* The engine with clients that stop it only when nothing is buffered or in
\* flight (so that stop() returns at once), start it again, and submit one
\* opportunity more, so that a lane receives two; no task is cancelled.
SubmitRestart == SubmitOpportunity(OppInputs, MaxSubmit + 1)

StopIdle ==
    /\ \A l \in Lanes, q \in Queues : lanes[l].unfinished[q] = 0
    /\ Stop

NextRestart ==
    \/ Start
    \/ SubmitRestart
    \/ BeginTasks
    \/ LoopDequeue
    \/ LoopFinish
    \/ LoopTimeout
    \/ StopIdle

SpecRestart == Init /\ [][NextRestart]_vars

\* ------------------------------------ the engine behind IntegratedExecutor

\* what MLEnsemble.predict returns (in percent), or that it raises
ScoreInputs == {Score(FALSE, 84), Score(FALSE, 85), Score(FALSE, 95), Score(TRUE, None)}

\* the engine with every opportunity passing through process_opportunity;
\* the ML modules may or may not have been importable, USE_ML_FILTERING may
\* be true or false
InitIntegrated ==
    /\ InitEngine
    /\ mode = "DEV"
    /\ env = DefaultEnv
    /\ lane = NewLane(LaneQueues)
    /\ laneBefore = NewLane(LaneQueues)
    /\ sniperOpp = NoOpp
    /\ sniperResult = NoResult
    /\ lm = NewLaneMetrics
    /\ recorded = <<>>
    /\ InitModels
    /\ \E ml \in BOOLEAN, use \in BOOLEAN : integrated = NewIntegrated(ml, use)
    /\ created = <<>>

\* process_opportunity, with the submit_opportunity it awaits
ProcessOpportunity ==
    /\ integrated.opportunities_received < MaxSubmit
    /\ \E i \in OppInputs, sc \in ScoreInputs :
         LET opp == Opportunity(integrated.opportunities_received + 1, i[1], i[2], i[3])
             sent == AfterScoring(integrated, opp, sc)
             received == executor.total_opportunities_received + 1
             idx == LaneIndex(received)
             seen == IF UsesMl(integrated) THEN sc ELSE NoScore
         IN /\ created' = Append(created, opp)
            /\ IF Filtered(integrated, sc)
               THEN /\ integrated' = [integrated EXCEPT
                                         !.opportunities_received = @ + 1,
                                         !.opportunities_filtered = @ + 1,
                                         !.returned = "False",
                                         !.scorer = seen,
                                         !.last_opp = sent]
                    /\ UNCHANGED <<executor, lanes>>
               ELSE /\ executor' = [executor EXCEPT
                                       !.total_opportunities_received = received]
                    /\ lanes' = [lanes EXCEPT ![idx] = LaneAddOpportunity(@, sent)]
                    /\ integrated' = [integrated EXCEPT
                                         !.opportunities_received = @ + 1,
                                         !.opportunities_submitted = @ + 1,
                                         !.returned = "True",
                                         !.scorer = seen,
                                         !.last_opp = sent]
    /\ lastCall' = Call("process_opportunity", FALSE)
    /\ UNCHANGED <<tasks, nstarts, pending, stopCall, mode, env,
                   lane, laneBefore, sniperOpp, sniperResult, lm, recorded,
                   registry, addedPools, versions, lastReg>>

NextIntegrated ==
    \/ Start
    \/ ProcessOpportunity
    \/ BeginTasks
    \/ LoopDequeue
    \/ LoopFinish

SpecIntegrated == InitIntegrated /\ [][NextIntegrated]_vars

\* ------------------------------------------- malformed opportunities

\* The running engine with clients that also submit opportunities holding a
\* None: one without a profit, one without a gas estimate.
MalformedInputs ==
    {<<1011, 90, 300000>>, <<None, 90, 300000>>, <<1011, 90, None>>}

SubmitMalformed == SubmitOpportunity(MalformedInputs, MaxSubmit)

NextMalformed ==
    \/ Start
    \/ SubmitMalformed
    \/ BeginTasks
    \/ LoopDequeue
    \/ LoopFinish

SpecMalformed == Init /\ [][NextMalformed]_vars

\* ------------------------------------------------- a stand-alone lane

\* A lane that has received MaxOcc low-profit opportunities per queue and
\* whose loops have since executed all but the last s[q] of queue q.
LaneWithSizes(s) ==
    LET drained == LaneQueues * MaxOcc - SumFn(s, DOMAIN s)
    IN [is_running |-> TRUE,
        queues |-> [q \in DOMAIN s |->
                      [k \in 1 .. s[q] |->
                          Opportunity((MaxOcc - s[q] + k - 1) * LaneQueues + q + 1,
                                      Cents(3), 90, 300000)]],
        unfinished |-> s,
        active |-> [q \in DOMAIN s |-> TRUE],
        executions_count |-> [q \in DOMAIN s |-> MaxOcc - s[q]],
        metrics |-> [NewLaneMetrics EXCEPT
                        !.total_opportunities = LaneQueues * MaxOcc,
                        !.total_executions = drained,
                        !.failed_executions = drained,
                        !.execution_times = [k \in 1 .. drained |-> 0]]]

InitLane ==
    /\ InitEngine
    /\ mode = "DEV"
    /\ env = DefaultEnv
    /\ \E s \in [0 .. (LaneQueues - 1) -> 0 .. MaxOcc] :
         /\ lane = LaneWithSizes(s)
         /\ laneBefore = LaneWithSizes(s)
    /\ sniperOpp = NoOpp
    /\ sniperResult = NoResult
    /\ lm = NewLaneMetrics
    /\ recorded = <<>>
    /\ InitMl

LaneAdd ==
    /\ lane.metrics.total_opportunities < LaneQueues * MaxOcc + MaxAdds
    /\ lane' = LaneAddOpportunity(lane,
                  Opportunity(lane.metrics.total_opportunities + 1, Cents(10), 90, 300000))
    /\ laneBefore' = lane
    /\ lastCall' = Call("add_opportunity", FALSE)
    /\ UNCHANGED <<executor, lanes, tasks, nstarts, pending, stopCall, mode, env,
                   sniperOpp, sniperResult, lm, recorded, mlVars>>

SpecLane == InitLane /\ [][LaneAdd]_vars

\* ------------------------------------------------- a stand-alone sniper

\* $4.99, $5.00, $10.11
ProfitInputs == {499, 500, 1011}
ConfidenceInputs == {84, 85, 90}
GasInputs == {300000, 1000000, 1000001}

\* the environments the sniper is run under: the defaults, and thresholds
\* set by the operator
EnvInputs ==
    {DefaultEnv,
     [MIN_PROFIT_USD |-> 1011, MIN_CONFIDENCE_SCORE |-> 90, MAX_GAS_ESTIMATE |-> 300000]}

InitSniper ==
    /\ InitEngine
    /\ mode \in Modes
    /\ env \in EnvInputs
    /\ lane = NewLane(LaneQueues)
    /\ laneBefore = NewLane(LaneQueues)
    /\ \E p \in ProfitInputs, c \in ConfidenceInputs, g \in GasInputs :
         sniperOpp = Opportunity(1, p, c, g)
    /\ sniperResult = NoResult
    /\ lm = NewLaneMetrics
    /\ recorded = <<>>
    /\ InitMl

SniperExecute ==
    /\ sniperResult = NoResult
    /\ \E draw \in BOOLEAN :
         sniperResult' = ExecuteOpportunity(sniperOpp, mode, env, 0, 0, draw)
    /\ lastCall' = Call("execute_opportunity", FALSE)
    /\ UNCHANGED <<executor, lanes, tasks, nstarts, pending, stopCall, mode, env,
                   lane, laneBefore, sniperOpp, lm, recorded, mlVars>>

SpecSniper == InitSniper /\ [][SniperExecute]_vars

\* ------------------------------------- a sniper in a changing environment

\* A sniper of an engine constructed under the default environment; the
\* operator changes the process environment afterwards.
InitReconfig ==
    /\ InitSniper
    /\ env = DefaultEnv

\* os.environ[...] = ... in the running process
SetEnv ==
    /\ \E e \in EnvInputs :
         /\ e # env
         /\ env' = e
    /\ lastCall' = Call("setenv", FALSE)
    /\ UNCHANGED <<executor, lanes, tasks, nstarts, pending, stopCall, mode,
                   lane, laneBefore, sniperOpp, sniperResult, lm, recorded, mlVars>>

NextReconfig ==
    \/ SetEnv
    \/ SniperExecute

SpecReconfig == InitReconfig /\ [][NextReconfig]_vars

\* ------------------------------------------------- stand-alone PoolRegistry

\* chain and DEX names as in the factories table, addresses as hex text
ChainInputs == {"polygon", "ethereum"}
DexInputs == {"quickswap", "sushiswap"}
AddressInputs == {"0xpool1", "0xpool2"}
PoolTypeInputs == {"v2", "v3"}

PoolInputs ==
    {PoolInfo(a, d, c, "0xUSDC", "0xUSDT", t, act) :
        a \in AddressInputs, d \in DexInputs, c \in ChainInputs,
        t \in PoolTypeInputs, act \in BOOLEAN}

RegistryAdd ==
    /\ Len(addedPools) < MaxPools
    /\ \E pool \in PoolInputs :
         /\ registry' = AddPool(registry, pool)
         /\ addedPools' = Append(addedPools, pool)
    /\ lastCall' = Call("add_pool", FALSE)
    /\ UNCHANGED <<executor, lanes, tasks, nstarts, pending, stopCall, mode, env,
                   lane, laneBefore, sniperOpp, sniperResult, lm, recorded,
                   versions, lastReg, integrated, created>>

SpecRegistry == Init /\ [][RegistryAdd]_vars

\* ------------------------------------ a registry whose pools are updated

\* pools of one DEX on one chain, USDC against USDT or DAI
QuoteTokenInputs == {"0xUSDT", "0xDAI"}
TokenInputs == {"0xUSDC", "0xUSDT", "0xDAI"}

UpdateInputs ==
    {PoolInfo(a, "quickswap", "polygon", "0xUSDC", t1, t, act) :
        a \in AddressInputs, t1 \in QuoteTokenInputs,
        t \in PoolTypeInputs, act \in BOOLEAN}

RegistryPut ==
    /\ Len(addedPools) < MaxPools
    /\ \E pool \in UpdateInputs :
         /\ registry' = AddPool(registry, pool)
         /\ addedPools' = Append(addedPools, pool)
    /\ lastCall' = Call("add_pool", FALSE)
    /\ UNCHANGED <<executor, lanes, tasks, nstarts, pending, stopCall, mode, env,
                   lane, laneBefore, sniperOpp, sniperResult, lm, recorded,
                   versions, lastReg, integrated, created>>

\* set_pool_status on a key, present or not
RegistrySetStatus ==
    /\ \E a \in AddressInputs, act \in BOOLEAN :
         /\ registry' = SetPoolStatus(registry, "polygon", "quickswap", a, act)
         /\ lastCall' = Call("set_pool_status",
                              PoolKey("polygon", "quickswap", a) \notin DOMAIN registry.pools)
    /\ UNCHANGED <<executor, lanes, tasks, nstarts, pending, stopCall, mode, env,
                   lane, laneBefore, sniperOpp, sniperResult, lm, recorded,
                   addedPools, versions, lastReg, integrated, created>>

NextRegistryOps ==
    \/ RegistryPut
    \/ RegistrySetStatus

SpecRegistryOps == Init /\ [][NextRegistryOps]_vars

\* ------------------------------------------------- stand-alone ModelManager

ModelTypeInputs == {"xgboost", "onnx", "lstm"}
VersionInputs == {"v1.0.0", "v2.0.0"}

\* register_model(model_type, "model.json", version, {}, activate)
Register ==
    /\ Len(versions["xgboost"]) + Len(versions["onnx"]) < MaxRegs
    /\ \E t \in ModelTypeInputs, v \in VersionInputs, activate \in BOOLEAN :
         /\ versions' = IF RegisterRaises(t) THEN versions
                         ELSE RegisterModel(versions, t, "model.json", v, activate)
         /\ lastReg' = [op |-> "register_model", model_type |-> t, version |-> v,
                         activate |-> activate, raised |-> RegisterRaises(t)]
    /\ lastCall' = Call("register_model", FALSE)
    /\ UNCHANGED <<executor, lanes, tasks, nstarts, pending, stopCall, mode, env,
                   lane, laneBefore, sniperOpp, sniperResult, lm, recorded,
                   registry, addedPools, integrated, created>>

SpecModels == Init /\ [][Register]_vars

\* ------------------------------------------------- stand-alone LaneMetrics

\* the results execute_opportunity can return for two opportunities
ResultInputs ==
    {ExecuteOpportunity(Opportunity(1, p, 90, 300000), m, DefaultEnv, 0, 0, draw) :
        p \in {300, 1011}, m \in Modes, draw \in BOOLEAN}

InitMetrics ==
    /\ InitEngine
    /\ InitUnits
    /\ mode = "DEV"
    /\ env = DefaultEnv

MetricsRecord ==
    /\ Len(recorded) < MaxRecords
    /\ \E r \in ResultInputs :
         /\ lm' = RecordExecution(lm, r)
         /\ recorded' = Append(recorded, r)
    /\ lastCall' = Call("record_execution", FALSE)
    /\ UNCHANGED <<executor, lanes, tasks, nstarts, pending, stopCall, mode, env,
                   lane, laneBefore, sniperOpp, sniperResult, mlVars>>

SpecMetrics == InitMetrics /\ [][MetricsRecord]_vars

\* ------------------------------------- LaneMetrics with a full window

\* A LaneMetrics that first records one result less than its window holds,
\* DEV results for opportunities of $3.00 (rejected, 0 ms) and $10.11
\* (executed, 20 ms) in turn, and then MaxRecords results of any kind.
PrefillResult(i) ==
    ExecuteOpportunity(Opportunity(i, IF i % 2 = 0 THEN 300 ELSE 1011, 90, 300000),
                       "DEV", DefaultEnv, 0, 0, TRUE)

WindowRecord ==
    /\ Len(recorded) < WindowLen - 1 + MaxRecords
    /\ \E r \in ResultInputs \cup {PrefillResult(Len(recorded) + 1)} :
         /\ Len(recorded) < WindowLen - 1 => r = PrefillResult(Len(recorded) + 1)
         /\ Len(recorded) >= WindowLen - 1 => r \in ResultInputs
         /\ lm' = RecordExecution(lm, r)
         /\ recorded' = Append(recorded, r)
    /\ lastCall' = Call("record_execution", FALSE)
    /\ UNCHANGED <<executor, lanes, tasks, nstarts, pending, stopCall, mode, env,
                   lane, laneBefore, sniperOpp, sniperResult, mlVars>>

SpecWindow == InitMetrics /\ [][WindowRecord]_vars

\* ----------------------------------------------------------------- claims

TotalExecutions ==
    SumFn([l \in Lanes |-> lanes[l].metrics.total_executions], Lanes)

\* C1: when a Stop call on a started engine has returned and nothing was
\* submitted after it was called, the recorded executions of all lanes sum
\* to the number N of opportunities submitted before the call.
C1_NoOpportunityLoss ==
    (/\ stopCall.st = "returned"
     /\ executor.total_opportunities_received = stopCall.n)
    => TotalExecutions = stopCall.n

\* C1 witness: a Stop that was called with two opportunities submitted has
\* returned, and both are recorded.
C1_Witness ==
    /\ stopCall.st = "returned"
    /\ stopCall.n = 2
    /\ executor.total_opportunities_received = 2
    /\ TotalExecutions = 2

\* C2: a Stop that waits for a queue to be processed can always go on: as
\* long as it waits, some worker loop (or Stop itself) has a step to take, so
\* the wait ends without a client restarting the engine.
C2_StopWaitCanEnd ==
    stopCall.st = "joining" => ENABLED EngineStep

\* a Submit step of the engine
SubmitStep ==
    executor'.total_opportunities_received = executor.total_opportunities_received + 1

\* C3: a Submit made after Stop was signaled (and before any later Start)
\* leaves every queue of every lane as it was.
C3_NoAcceptAfterStop ==
    [][(/\ SubmitStep
        /\ ~executor.is_running
        /\ stopCall.st # "idle")
       => \A l \in Lanes : lanes'[l].queues = lanes[l].queues]_vars

\* the opportunities of lane l that are buffered or in flight
LaneOpps(l) ==
    {lanes[l].queues[q][k] : <<q, k>> \in
        {x \in Queues \X (1 .. MaxSubmit) : x[2] <= Len(lanes[l].queues[x[1]])}}
    \cup {tasks[g][l][q].opp : <<g, q>> \in
        {x \in Gens \X Queues : tasks[x[1]][l][x[2]].st = "busy"}}

\* C4 as claimed: the opportunity with 0-based submission index i (route_id
\* i + 1) is placed in lane i mod L.
C4_LaneIsIndexModL ==
    \A l \in Lanes : \A o \in LaneOpps(l) : l = (o.route_id - 1) % NumLanes

\* C4 as amended: the opportunity with 0-based submission index i is placed
\* in lane (i + 1) mod L, so the first one goes to lane 1.
C4_LaneIsIndexPlusOneModL ==
    \A l \in Lanes : \A o \in LaneOpps(l) : l = o.route_id % NumLanes

\* C4 witness: the first opportunity sits in lane 1 and a later one in lane 0.
C4_Witness ==
    /\ \E o \in LaneOpps(1) : o.route_id = 1
    /\ \E o \in LaneOpps(0) : o.route_id > 1

\* queue occupancy [3,1,2,1]
Occupancy3121 == (0 :> 3 @@ 1 :> 1 @@ 2 :> 2 @@ 3 :> 1)

\* the first queue of least size, stated on the sizes alone
FirstLeast(sizes) ==
    CHOOSE i \in DOMAIN sizes :
        \A j \in DOMAIN sizes :
            /\ sizes[i] <= sizes[j]
            /\ (sizes[j] = sizes[i] => i <= j)

BelowFloorOrAboveCeiling(opp, e) ==
    \/ opp.profit_usd < e.MIN_PROFIT_USD
    \/ opp.confidence_score < e.MIN_CONFIDENCE_SCORE
    \/ opp.gas_estimate > e.MAX_GAS_ESTIMATE

\* C6: execute_opportunity returns REJECTED exactly for an opportunity with
\* profit below the floor, confidence below the floor or gas above the
\* ceiling, and a REJECTED result went through no mode-specific execution:
\* no latency, no transaction, no gas, no profit.
C6_ValidatorGate ==
    sniperResult # NoResult =>
        /\ (sniperResult.status = "rejected") <=> BelowFloorOrAboveCeiling(sniperOpp, env)
        /\ sniperResult.status = "rejected" =>
              /\ sniperResult.execution_time_ms = 0
              /\ sniperResult.tx_hash = ""
              /\ sniperResult.gas_used = 0
              /\ sniperResult.actual_profit = 0
        /\ sniperResult.status # "rejected" =>
              sniperResult.execution_time_ms \in {LiveDelayMs, DevDelayMs, SimDelayMs}

\* C6 witness: an opportunity exactly at the profit and confidence floors and
\* at the gas ceiling was executed and not rejected.
C6_Witness ==
    /\ sniperResult # NoResult
    /\ sniperResult.status # "rejected"
    /\ sniperOpp.profit_usd = env.MIN_PROFIT_USD
    /\ sniperOpp.confidence_score = env.MIN_CONFIDENCE_SCORE
    /\ sniperOpp.gas_estimate = env.MAX_GAS_ESTIMATE

\* C7: a Start call on a running engine changes nothing of the engine: no
\* task is created, no flag, start time, queue or metric changes.
C7_StartIdempotent ==
    [][(executor.is_running /\ Start)
       => UNCHANGED <<executor, lanes, tasks, nstarts, pending, stopCall>>]_vars

\* C7 witness: Start was called on a running engine that has work buffered.
C7_Witness ==
    /\ lastCall = Call("start", TRUE)
    /\ executor.is_running
    /\ executor.total_opportunities_received > 0

\* C8: a Stop call on an engine that is not running (never started, or
\* stopped already) changes nothing of the engine, so a second Stop leaves
\* the state the first one left.
C8_StopIdempotent ==
    [][(~executor.is_running /\ Stop)
       => UNCHANGED <<executor, lanes, tasks, nstarts, pending, stopCall>>]_vars

\* C8 witness: Stop was called again on an engine that a Stop had stopped.
C8_Witness ==
    /\ lastCall = Call("stop", TRUE)
    /\ stopCall.st = "returned"
    /\ nstarts > 0

\* C9: health_check reports a lane healthy exactly when the lane is running
\* and one of its worker loops is live and looping, and the engine healthy
\* exactly when every lane is.
C9_HealthIffLooping ==
    LET h == HealthCheck(lanes)
    IN /\ \A l \in Lanes :
             h.lanes[l].healthy <=>
                 /\ lanes[l].is_running
                 /\ \E g \in Gens, q \in Queues : TaskLooping(tasks[g][l][q])
       /\ h.healthy <=> \A l \in Lanes : h.lanes[l].healthy

\* the SUCCESS results among those recorded
Successes == {i \in 1 .. Len(recorded) : recorded[i].status = "success"}

\* C10: after k SUCCESS and m other results, success_rate is k / (k + m), 0
\* when nothing was recorded, and total_profit is the sum of the realized
\* profits of the SUCCESS results.
C10_MetricsCorrect ==
    LET k == Cardinality(Successes)
        m == Len(recorded) - k
        rate == SuccessRate(lm)
    IN /\ lm.successful_executions = k
       /\ lm.failed_executions = m
       /\ IF k + m = 0 THEN rate.num = 0
          ELSE rate.num * (k + m) = k * rate.den /\ rate.den > 0
       /\ lm.total_profit = SumFn([i \in Successes |-> recorded[i].actual_profit],
                                  Successes)

\* C10 witness: a lane that recorded a success, a failure and a rejection.
C10_Witness ==
    /\ Len(recorded) >= 3
    /\ \E i, j, n \in 1 .. Len(recorded) :
         /\ recorded[i].status = "success"
         /\ recorded[j].status = "failed"
         /\ recorded[n].status = "rejected"
    /\ lm.total_profit > 0

\* the cumulative profit of all lanes, in hundredths of a cent
TotalProfit ==
    SumFn([l \in Lanes |-> lanes[l].metrics.total_profit], Lanes)

TotalSuccesses ==
    SumFn([l \in Lanes |-> lanes[l].metrics.successful_executions], Lanes)

\* C11: at every snapshot get_overall_metrics reports the sum of the lanes'
\* execution counters, the sum of their success counters, the sum of their
\* cumulative profits (written with two decimals) and the success rate
\* successes / executions, 0 when nothing was executed.
C11_OverallIsSumOfLanes ==
    LET om == GetOverallMetrics(executor, lanes, mode)
    IN /\ om.total_executions = TotalExecutions
       /\ om.total_successes = TotalSuccesses
       /\ om.total_profit = FormatUsd(TotalProfit)
       /\ om.overall_success_rate =
             IF TotalExecutions = 0 THEN 0
             ELSE FormatPct(TotalSuccesses, TotalExecutions)

\* a worker loop of lane l, queue q comes back from execute_opportunity
LoopReturns(g, l, q) ==
    /\ tasks[g][l][q].st = "busy"
    /\ tasks'[g][l][q].st \in {"waiting", "exited"}

\* C12: whenever a loop comes back from execute_opportunity, a result was
\* recorded in the lane's metrics; for an opportunity whose handling raised
\* an exception it is a failure, and the loop of a running lane waits for
\* the next opportunity.
C12_ExecuteNeverRaises ==
    [][\A g \in Gens, l \in Lanes, q \in Queues :
         LoopReturns(g, l, q) =>
            /\ lanes'[l].metrics.total_executions
                  = lanes[l].metrics.total_executions + 1
            /\ (\/ LogLineRaises(tasks[g][l][q].opp)
                \/ ValidateRaises(tasks[g][l][q].opp, env))
                  => lanes'[l].metrics.failed_executions
                        = lanes[l].metrics.failed_executions + 1
            /\ lanes[l].is_running => tasks'[g][l][q].st = "waiting"]_vars

\* the opportunities buffered in the queues of lane l, one entry each
QueuedIn(l) ==
    {<<q, k>> \in Queues \X (1 .. MaxSubmit + 1) : k <= Len(lanes[l].queues[q])}

\* the worker loops of lane l that hold an opportunity
BusyIn(l) ==
    {<<g, q>> \in Gens \X Queues : tasks[g][l][q].st = "busy"}

Buffered == SumFn([l \in Lanes |-> Cardinality(QueuedIn(l))], Lanes)
InFlight == SumFn([l \in Lanes |-> Cardinality(BusyIn(l))], Lanes)

\* calls of execute_opportunity so far, over all snipers
Started ==
    SumFn([l \in Lanes |->
              SumFn(lanes[l].executions_count, Queues)], Lanes)

NoTaskCancelled ==
    \A g \in Gens, l \in Lanes, q \in Queues : tasks[g][l][q].st # "cancelled"

LoopTakes(g, l, q) ==
    /\ tasks[g][l][q].st = "waiting"
    /\ tasks'[g][l][q].st = "busy"

\* C14: opportunities are put on a queue in the order of their route ids; a
\* loop that takes one from a queue takes the one enqueued first, and a
\* loop that records a result holds the opportunity enqueued first among
\* those of its queue that are in flight.
C14_QueueIsFifo ==
    [][\A g \in Gens, l \in Lanes, q \in Queues :
         /\ LoopTakes(g, l, q) =>
               \A k \in 1 .. Len(lanes'[l].queues[q]) :
                  tasks'[g][l][q].opp.route_id < lanes'[l].queues[q][k].route_id
         /\ LoopReturns(g, l, q) =>
               \A h \in Gens :
                  (h # g /\ tasks[h][l][q].st = "busy")
                     => tasks[g][l][q].opp.route_id < tasks[h][l][q].opp.route_id]_vars

\* C15: a sniper of an engine constructed under the default environment
\* rejects exactly the opportunities the default thresholds reject, whatever
\* the environment has become by the time of the validation (so any two
\* engines constructed under that configuration decide alike).
C15_ThresholdsFixedAtConstruction ==
    sniperResult # NoResult =>
        ((sniperResult.status = "rejected")
            <=> BelowFloorOrAboveCeiling(sniperOpp, DefaultEnv))

\* the (chain, dex, address) keys of the pools added so far
AddedKeys ==
    {<<addedPools[i].chain, addedPools[i].dex, addedPools[i].address>> :
        i \in 1 .. Len(addedPools)}

\* the last pool added under the key of pool p
LastAdded(p) ==
    LET same == {i \in 1 .. Len(addedPools) :
                    /\ addedPools[i].chain = p.chain
                    /\ addedPools[i].dex = p.dex
                    /\ addedPools[i].address = p.address}
    IN addedPools[CHOOSE i \in same : \A j \in same : j <= i]

\* C16: after any sequence of add_pool calls stats['total_pools'] and the
\* number of stored pools equal the number of distinct (chain, dex, address)
\* keys added, and under each key the registry holds the pool added last.
C16_AddPoolIdempotent ==
    /\ registry.stats.total_pools = Cardinality(AddedKeys)
    /\ Cardinality(DOMAIN registry.pools) = Cardinality(AddedKeys)
    /\ \A i \in 1 .. Len(addedPools) :
          LET p == addedPools[i]
              k == PoolKey(p.chain, p.dex, p.address)
          IN /\ k \in DOMAIN registry.pools
             /\ registry.pools[k] = LastAdded(p)

\* C16 witness: three calls, two of them for one key with different type
\* and status, leave two pools, the re-added one in its last version.
C16_Witness ==
    /\ Len(addedPools) = 3
    /\ PoolKey(addedPools[1].chain, addedPools[1].dex, addedPools[1].address)
         = PoolKey(addedPools[3].chain, addedPools[3].dex, addedPools[3].address)
    /\ addedPools[1] # addedPools[3]
    /\ registry.stats.total_pools = 2
    /\ registry.pools[PoolKey(addedPools[1].chain, addedPools[1].dex,
                              addedPools[1].address)] = addedPools[3]

\* C17: whenever register_model(..., activate=True) has returned, the entry
\* it appended is the only one of its model type with is_active = True, and
\* every other entry of that type has traffic_weight 0.
C17_SingleActiveVersion ==
    (/\ lastReg.op = "register_model"
     /\ lastReg.activate
     /\ ~lastReg.raised)
    => LET vs == versions[lastReg.model_type]
           n == Len(vs)
       IN /\ vs[n].version = lastReg.version
          /\ vs[n].is_active
          /\ \A i \in 1 .. (n - 1) :
                /\ ~vs[i].is_active
                /\ vs[i].traffic_weight = 0


\* the worker loops that are inside their while loop
LiveLoops ==
    {t \in Gens \X Lanes \X Queues : TaskLooping(tasks[t[1]][t[2]][t[3]])}

\* C18: there are never more than L x W live worker loops, and no queue
\* (and so no sniper, which serves the queue of its own index) has two live
\* loops, also after the engine was stopped and started again.
C18_OneLoopPerQueue ==
    /\ Cardinality(LiveLoops) <= NumLanes * NumQueues
    /\ \A l \in Lanes, q \in Queues :
          \A g, h \in Gens :
             (TaskLooping(tasks[g][l][q]) /\ TaskLooping(tasks[h][l][q])) => g = h

\* C19: no sniper has two opportunities in flight: of the loops that serve
\* queue q of lane l, at most one holds an opportunity it has dequeued and
\* not yet recorded.
C19_OneInFlightPerSniper ==
    \A l \in Lanes, q \in Queues :
       \A g, h \in Gens :
          (tasks[g][l][q].st = "busy" /\ tasks[h][l][q].st = "busy") => g = h

\* C20: a Stop call on a running engine clears the running flag of every
\* lane in the step of the call, whether or not a lane still has buffered
\* or in-flight opportunities.
C20_StopSignalsEveryLane ==
    [][(executor.is_running /\ Stop)
       => \A l \in Lanes : ~lanes'[l].is_running]_vars

\* C21: the reason carried by a REJECTED result names the first check that
\* failed, in the order profit floor, confidence floor, gas ceiling.
C21_RejectReasonNamesFirstCheck ==
    (sniperResult # NoResult /\ sniperResult.status = "rejected")
    => CheckNamedBy(sniperResult.error_msg) = FirstFailedCheck(sniperOpp, env)

\* C22: a result that execute_opportunity returned has a terminal status,
\* which is SUCCESS, FAILED or REJECTED and never TIMEOUT or one of the
\* transient values, and the status of a returned result does not change.
C22_TerminalStatusNeverTimeout ==
    /\ [](sniperResult # NoResult =>
            /\ sniperResult.status \in TerminalStatuses
            /\ sniperResult.status \notin TransientStatuses
            /\ sniperResult.status # "timeout")
    /\ [][sniperResult # NoResult =>
            sniperResult'.status = sniperResult.status]_vars

\* C22 witness: a DEV execution of a valid opportunity drew a failure and
\* returned a FAILED result.
C22_Witness ==
    /\ sniperResult # NoResult
    /\ mode = "DEV"
    /\ ValidateOpportunity(sniperOpp, env)
    /\ sniperResult.status = "failed"

C24_DevSimResult ==
    (/\ sniperResult # NoResult
     /\ mode \in {"DEV", "SIM"}
     /\ ValidateOpportunity(sniperOpp, env))
    => /\ sniperResult.status \in {"success", "failed"}
       /\ sniperResult.status = "success" =>
             /\ sniperResult.actual_profit =
                   sniperOpp.profit_usd * (IF mode = "SIM" THEN FullPct ELSE SlippagePct)
             /\ sniperResult.gas_used = sniperOpp.gas_estimate
       /\ sniperResult.status = "failed" =>
             /\ sniperResult.actual_profit = 0
             /\ sniperResult.gas_used = 0
             /\ sniperResult.error_msg =
                   (IF mode = "SIM" THEN SimFailureReason ELSE DevFailureReason)

\* C24 witness: a SIM execution of a valid opportunity drew a failure.
C24_Witness ==
    /\ sniperResult # NoResult
    /\ mode = "SIM"
    /\ ValidateOpportunity(sniperOpp, env)
    /\ sniperResult.status = "failed"
    /\ sniperResult.error_msg = SimFailureReason

\* C25: after n recorded executions the latency window holds min(n, 100)
\* samples: the latencies of the most recent results, in recording order.
C25_WindowHoldsLast100 ==
    LET n == Len(recorded)
        w == lm.execution_times
        held == IF n < WindowLen THEN n ELSE WindowLen
    IN /\ lm.total_executions = n
       /\ Len(w) = held
       /\ Len(w) <= WindowLen
       /\ \A k \in 1 .. held : w[k] = recorded[n - held + k].execution_time_ms

\* C25 witness: the 101st result was recorded, and the sample it evicted
\* differs from the one that is now the oldest.
C25_Witness ==
    /\ Len(recorded) = WindowLen + 1
    /\ Len(lm.execution_times) = WindowLen
    /\ recorded[1].execution_time_ms # recorded[2].execution_time_ms
    /\ lm.execution_times[1] = recorded[2].execution_time_ms

C29_IntegratedAccounting ==
    /\ [](/\ integrated.opportunities_received =
                integrated.opportunities_filtered + integrated.opportunities_submitted
           /\ executor.total_opportunities_received = integrated.opportunities_submitted)
    /\ [][integrated'.opportunities_received = integrated.opportunities_received + 1
           => /\ (integrated'.returned = "True") <=>
                    (executor'.total_opportunities_received
                        = executor.total_opportunities_received + 1)
              /\ (integrated'.returned = "False") <=>
                    (integrated'.opportunities_filtered
                        = integrated.opportunities_filtered + 1)
              /\ integrated'.returned \in {"True", "False"}
              /\ integrated'.scorer.raised => integrated'.returned = "True"]_vars

\* C29 witness: one opportunity was dropped by the ML filter, and then the
\* scorer raised on another, which was submitted all the same.
C29_Witness ==
    /\ integrated.opportunities_received = 2
    /\ integrated.opportunities_filtered = 1
    /\ integrated.opportunities_submitted = 1
    /\ integrated.scorer.raised
    /\ integrated.returned = "True"
    /\ executor.total_opportunities_received = 1

\* C27: for each lane, total_opportunities is the number of opportunities
\* buffered in its queues plus the number in flight in its worker loops
\* plus total_executions, and total_executions is successful_executions
\* plus failed_executions.
C27_LaneConservation ==
    \A l \in Lanes :
       LET m == lanes[l].metrics
       IN /\ m.total_opportunities
                = Cardinality(QueuedIn(l)) + Cardinality(BusyIn(l)) + m.total_executions
          /\ m.total_executions <= m.total_opportunities
          /\ m.total_executions = m.successful_executions + m.failed_executions

\* C28: once a lane was started and its running flag is cleared (and the
\* engine is not started again), every sniper of the lane is eventually
\* marked inactive: the lane reports 0 active snipers.
C28_StoppedLaneGoesInactive ==
    \A l \in Lanes :
       (nstarts > 0 /\ ~lanes[l].is_running)
          ~> (\A q \in Queues : ~lanes[l].active[q])

\* stats['active_pools'] and stats['pools_by_type'] agree with the stored pools
RegistryCountersConsistent ==
    /\ registry.stats.active_pools
          = Cardinality({k \in DOMAIN registry.pools : registry.pools[k].is_active})
    /\ SumFn(registry.stats.pools_by_type, DOMAIN registry.stats.pools_by_type)
          = Cardinality(DOMAIN registry.pools)

\* C30: after any add_pool and set_pool_status calls,
\* find_pools_for_token_pair(t0, t1) returns only pools whose two token
\* addresses are t0 and t1, stats['active_pools'] is the number of stored
\* pools with is_active, and the counts of stats['pools_by_type'] sum to
\* the number of stored pools.
C30_RegistryConsistent ==
    /\ \A t0, t1 \in TokenInputs :
          \A p \in FindPoolsForTokenPair(registry, t0, t1) :
             {Lower(p.token0_address), Lower(p.token1_address)} = {Lower(t0), Lower(t1)}
    /\ RegistryCountersConsistent

====
